---- MODULE Spec2Model ----
(***************************************************************************)
(* Dev Notes App: Markdown notes are collected by a build-time glob        *)
(* (notesMap), indexed into NoteItem records (noteList), listed by          *)
(* category (NoteListPage) and shown one at a time (NotePage) under the     *)
(* client-side routes of App.                                               *)
(*                                                                         *)
(* Strings the code takes apart (file paths, URL paths, object keys) are   *)
(* sequences of one-character strings, so that replace, split and === are  *)
(* computed as JavaScript computes them.  File contents are opaque and     *)
(* stay TLA+ strings.                                                      *)
(***************************************************************************)
EXTENDS Integers, Sequences, FiniteSets, TLC

VARIABLES srcTree, notesMap, noteList, history, view, event

vars == <<srcTree, notesMap, noteList, history, view, event>>

(***************************************************************************)
(* Bounds of the model.                                                    *)
(***************************************************************************)
\* the largest number of files in the source tree at build time
MaxFiles == 2
\* the largest number of entries of the session history
MaxHist == 3

(***************************************************************************)
(* String constants.                                                       *)
(***************************************************************************)
Slash == <<"/">>
sA == <<"a">>
sUpperA == <<"A">>
sX == <<"x">>
sNotes == <<"n", "o", "t", "e", "s">>
sDocs == <<"d", "o", "c", "s">>
sRoot == <<"r", "o", "o", "t">>
sConstructor == <<"c", "o", "n", "s", "t", "r", "u", "c", "t", "o", "r">>
sToString == <<"t", "o", "S", "t", "r", "i", "n", "g">>
sProto == <<"_", "_", "p", "r", "o", "t", "o", "_", "_">>
sTwo == <<"2">>
sNote == <<"n", "o", "t", "e">>
sExt == <<".", "m", "d">>
sDot == <<".">>

\* './notes/', the literal of notesMap.ts:23 and the static part of the glob
NotesPrefix == sDot \o Slash \o sNotes \o Slash
\* './docs/', the directory the README tells the user to put notes in
DocsPrefix == sDot \o Slash \o sDocs \o Slash

(***************************************************************************)
(* JavaScript string operations.                                           *)
(***************************************************************************)
OccursAt(s, t, i) ==
    /\ i >= 1
    /\ i + Len(t) - 1 <= Len(s)
    /\ SubSeq(s, i, i + Len(t) - 1) = t

StartsWith(s, t) == OccursAt(s, t, 1)

EndsWith(s, t) == Len(t) <= Len(s) /\ OccursAt(s, t, Len(s) - Len(t) + 1)

\* String.prototype.indexOf, 1-based; 0 when t does not occur in s
IndexOf(s, t) ==
    LET hits == {i \in 1..(Len(s) + 1) : OccursAt(s, t, i)}
    IN  IF hits = {} THEN 0 ELSE CHOOSE i \in hits : \A j \in hits : i <= j

\* s.replace(t, r) with a string pattern: only the first occurrence is replaced
ReplaceFirst(s, t, r) ==
    LET i == IndexOf(s, t)
    IN  IF i = 0 THEN s
        ELSE SubSeq(s, 1, i - 1) \o r \o SubSeq(s, i + Len(t), Len(s))

\* s.replace(/\.md$/, ''): the pattern is anchored at the end of the string
ReplaceMdAtEnd(s) ==
    IF EndsWith(s, sExt) THEN SubSeq(s, 1, Len(s) - Len(sExt)) ELSE s

\* s.split(sep) for a one-character separator: always at least one segment
RECURSIVE Split(_, _)
Split(s, sep) ==
    LET i == IndexOf(s, sep)
    IN  IF i = 0 THEN <<s>>
        ELSE <<SubSeq(s, 1, i - 1)>> \o Split(SubSeq(s, i + Len(sep), Len(s)), sep)

(***************************************************************************)
(* The source tree at build time.  A file is its path relative to the      *)
(* directory of notesMap.ts, as the glob reports it, and its text.         *)
(***************************************************************************)
File(dir, segs, text) == [file |-> dir \o segs \o sExt, text |-> text]

Candidates ==
    { File(NotesPrefix, sA, "# a"),
      File(NotesPrefix, sA \o Slash \o sA, "# Title"),
      File(NotesPrefix, sNotes \o Slash \o sA \o Slash \o sA \o sExt, "# Title"),
      File(NotesPrefix, sRoot \o Slash \o sA, "# Title"),
      File(NotesPrefix, sConstructor \o Slash \o sA, "# Title"),
      File(NotesPrefix, sTwo \o Slash \o sA, "# Title"),
      File(NotesPrefix, <<>>, "# Title"),
      File(DocsPrefix, sA, "# Title") }

Injective(s) == \A i, j \in DOMAIN s : i # j => s[i].file # s[j].file

\* every order in which a scan can report up to MaxFiles distinct files
SourceTrees ==
    {s \in UNION {[1..n -> Candidates] : n \in 0..MaxFiles} : Injective(s)}

(***************************************************************************)
(* notesMap: import.meta.glob('./notes/**/*.md', {as: 'raw', eager: true}) *)
(***************************************************************************)
\* the glob with hidden names included (the option exhaustive: true)
GlobMatchesHidden(file) ==
    LET segs == Split(file, Slash)
    IN  /\ Len(segs) >= 3
        /\ segs[1] = sDot
        /\ segs[2] = sNotes
        /\ EndsWith(segs[Len(segs)], sExt)

\* the glob pattern: './notes/', any directories, a file name '*.md'; a '*'
\* or '**' never matches a name that starts with '.' (the glob's default)
GlobMatches(file) ==
    LET segs == Split(file, Slash)
    IN  /\ Len(segs) >= 3
        /\ segs[1] = sDot
        /\ segs[2] = sNotes
        /\ \A k \in 3..Len(segs) : segs[k] # <<>> /\ Head(segs[k]) # "."
        /\ EndsWith(segs[Len(segs)], sExt)

\* the entries of the mapping, in the order Object.entries reports them
Glob(tree) ==
    LET hit(f) == GlobMatches(f.file)
        kept == SelectSeq(tree, hit)
    IN  [i \in 1..Len(kept) |-> [key |-> kept[i].file, raw |-> kept[i].text]]

(***************************************************************************)
(* noteList: Object.entries(notesMap).map(([filePath, content]) => ...)    *)
(***************************************************************************)
\* s.replace(/\.md/g, ''): every occurrence instead of the one at the end
RECURSIVE ReplaceMdEverywhere(_)
ReplaceMdEverywhere(s) ==
    IF IndexOf(s, sExt) = 0 THEN s
    ELSE ReplaceMdEverywhere(ReplaceFirst(s, sExt, <<>>))

\* NoteItem with the extension removed wherever it occurs
NoteItemStripEveryExt(filePath, content) ==
    LET withoutPrefix == ReplaceFirst(filePath, NotesPrefix, <<>>)
        withoutExt == ReplaceMdEverywhere(withoutPrefix)
        segments == Split(withoutExt, Slash)
    IN  [path |-> withoutExt, name |-> segments[Len(segments)],
         category |-> IF Len(segments) > 1 THEN segments[1] ELSE sRoot,
         content |-> content]

\* NoteItem without the sentinel: category is always the first segment
NoteItemNoSentinel(filePath, content) ==
    LET withoutExt == ReplaceMdAtEnd(ReplaceFirst(filePath, NotesPrefix, <<>>))
        segments == Split(withoutExt, Slash)
    IN  [path |-> withoutExt, name |-> segments[Len(segments)],
         category |-> segments[1], content |-> content]

\* NoteItem with the text transformed: here, cut down to nothing
NoteItemCutContent(filePath, content) ==
    LET withoutExt == ReplaceMdAtEnd(ReplaceFirst(filePath, NotesPrefix, <<>>))
        segments == Split(withoutExt, Slash)
    IN  [path |-> withoutExt, name |-> segments[Len(segments)],
         category |-> IF Len(segments) > 1 THEN segments[1] ELSE sRoot,
         content |-> ""]

\* NoteItem with the file name alone as path
NoteItemPathIsName(filePath, content) ==
    LET withoutExt == ReplaceMdAtEnd(ReplaceFirst(filePath, NotesPrefix, <<>>))
        segments == Split(withoutExt, Slash)
    IN  [path |-> segments[Len(segments)], name |-> segments[Len(segments)],
         category |-> IF Len(segments) > 1 THEN segments[1] ELSE sRoot,
         content |-> content]

\* s.replace(t, r) for every occurrence of t in s
RECURSIVE ReplaceEvery(_, _, _)
ReplaceEvery(s, t, r) ==
    IF IndexOf(s, t) = 0 THEN s
    ELSE LET i == IndexOf(s, t)
         IN  SubSeq(s, 1, i - 1) \o r \o ReplaceEvery(SubSeq(s, i + Len(t), Len(s)), t, r)

\* NoteItem with every leading 'notes/' removed, not the root prefix alone
NoteItemStripEveryPrefix(filePath, content) ==
    LET withoutPrefix == ReplaceEvery(ReplaceFirst(filePath, NotesPrefix, <<>>),
                                      sNotes \o Slash, <<>>)
        withoutExt == ReplaceMdAtEnd(withoutPrefix)
        segments == Split(withoutExt, Slash)
    IN  [path |-> withoutExt, name |-> segments[Len(segments)],
         category |-> IF Len(segments) > 1 THEN segments[1] ELSE sRoot,
         content |-> content]

NoteItem(filePath, content) ==
    LET withoutPrefix == ReplaceFirst(filePath, NotesPrefix, <<>>)
        withoutExt == ReplaceMdAtEnd(withoutPrefix)
        segments == Split(withoutExt, Slash)
        name == segments[Len(segments)]
        category == IF Len(segments) > 1 THEN segments[1] ELSE sRoot
    IN  [path |-> withoutExt, name |-> name, category |-> category,
         content |-> content]

\* the records in the opposite order of the entries
BuildNoteListBackwards(map) ==
    [i \in 1..Len(map) |-> NoteItem(map[Len(map) + 1 - i].key, map[Len(map) + 1 - i].raw)]

BuildNoteList(map) ==
    [i \in 1..Len(map) |-> NoteItem(map[i].key, map[i].raw)]

(***************************************************************************)
(* NoteListPage: noteList.reduce((acc, note) => ..., {}) groups the notes  *)
(* in a plain object, and Object.entries(grouped) lists the sections.      *)
(* An object is the sequence of its own properties in creation order; a    *)
(* key it does not own is looked up on Object.prototype.                   *)
(***************************************************************************)
\* property names every plain object inherits (those the alphabet can spell)
ObjectPrototypeKeys == {sConstructor, sToString, sProto}

OwnIndex(props, k) ==
    LET hits == {i \in 1..Len(props) : props[i].category = k}
    IN  IF hits = {} THEN 0 ELSE CHOOSE i \in hits : TRUE

\* the reducer with unshift in place of push: a group grows at its front
GroupStepUnshift(acc, note) ==
    LET k == note.category
        own == OwnIndex(acc.props, k)
    IN  IF ~acc.ok THEN acc
        ELSE IF own # 0
        THEN [acc EXCEPT !.props[own].notes = <<note>> \o @]
        ELSE IF k \in ObjectPrototypeKeys
        THEN [ok |-> FALSE, props |-> <<>>]
        ELSE [acc EXCEPT !.props = Append(@, [category |-> k, notes |-> <<note>>])]

\* one call of the reducer; acc.ok = FALSE once the reducer has thrown
GroupStep(acc, note) ==
    LET k == note.category
        own == OwnIndex(acc.props, k)
    IN  IF ~acc.ok THEN acc
        ELSE IF own # 0
        THEN [acc EXCEPT !.props[own].notes = Append(@, note)]
        ELSE IF k \in ObjectPrototypeKeys
        \* acc[k] is the inherited value: truthy, so no array is created,
        \* and it has no push: TypeError
        THEN [ok |-> FALSE, props |-> <<>>]
        ELSE [acc EXCEPT !.props = Append(@, [category |-> k, notes |-> <<note>>])]

RECURSIVE Reduce(_, _)
Reduce(acc, list) ==
    IF list = <<>> THEN acc ELSE Reduce(GroupStep(acc, Head(list)), Tail(list))

Digits == {"0", "1", "2", "3", "4", "5", "6", "7", "8", "9"}

DigitValue(c) == CHOOSE d \in 0..9 : <<"0", "1", "2", "3", "4", "5", "6", "7", "8", "9">>[d + 1] = c

\* a canonical array index: such keys are enumerated first, in numeric order
IsIntegerKey(k) ==
    /\ k # <<>>
    /\ \A i \in 1..Len(k) : k[i] \in Digits
    /\ (Len(k) > 1 => k[1] # "0")

RECURSIVE KeyValue(_)
KeyValue(k) ==
    IF k = <<>> THEN 0
    ELSE 10 * KeyValue(SubSeq(k, 1, Len(k) - 1)) + DigitValue(k[Len(k)])

RECURSIVE SortByKeyValue(_)
SortByKeyValue(props) ==
    IF props = <<>> THEN <<>>
    ELSE LET m == CHOOSE i \in 1..Len(props) :
                      \A j \in 1..Len(props) :
                          KeyValue(props[i].category) <= KeyValue(props[j].category)
             rest == [j \in 1..(Len(props) - 1) |-> IF j < m THEN props[j] ELSE props[j + 1]]
         IN  <<props[m]>> \o SortByKeyValue(rest)

\* Object.entries of an object that lists every key in creation order
ObjectEntriesAsCreated(props) == props

\* Object.entries: integer keys in ascending order, then the others as created
ObjectEntries(props) ==
    LET isInt(p) == IsIntegerKey(p.category)
        notInt(p) == ~IsIntegerKey(p.category)
    IN  SortByKeyValue(SelectSeq(props, isInt)) \o SelectSeq(props, notInt)

\* what the List View shows: the sections in display order, or nothing when
\* the reducer threw (no error boundary: the render fails)
NoteListPage(list) ==
    LET grouped == Reduce([ok |-> TRUE, props |-> <<>>], list)
    IN  [ok |-> grouped.ok,
         sections |-> IF grouped.ok THEN ObjectEntries(grouped.props) ELSE <<>>]

(***************************************************************************)
(* NotePage: noteList.find((n) => n.path === path)                         *)
(***************************************************************************)
\* Find with the comparison made on the name: (n) => n.name === path
FindByName(list, path) ==
    LET hits == {i \in 1..Len(list) : list[i].name = path}
    IN  IF hits = {} THEN <<>>
        ELSE <<list[CHOOSE i \in hits : \A j \in hits : i <= j]>>

\* Find with a prefix match: (n) => n.path.startsWith(path)
FindByPrefix(list, path) ==
    LET hits == {i \in 1..Len(list) : StartsWith(list[i].path, path)}
    IN  IF hits = {} THEN <<>>
        ELSE <<list[CHOOSE i \in hits : \A j \in hits : i <= j]>>

\* the first element whose path is identical to the parameter, as a sequence
\* of one record, or the empty sequence for undefined
Find(list, path) ==
    LET hits == {i \in 1..Len(list) : list[i].path = path}
    IN  IF hits = {} THEN <<>>
        ELSE <<list[CHOOSE i \in hits : \A j \in hits : i <= j]>>

\* NotePage that keeps the note found last in a module-level variable and
\* shows it again when the lookup finds nothing
NotePageRemembers(list, params) ==
    LET path == IF params = <<>> THEN <<>> ELSE params[1]
        note == Find(list, path)
        last == IF view.kind = "DetailView" THEN view.found ELSE <<>>
    IN  [kind |-> "DetailView", param |-> path,
         found |-> IF note = <<>> THEN last ELSE note,
         list |-> [ok |-> TRUE, sections |-> <<>>]]

\* params is useParams(): <<p>> when the route gave a 'path' parameter, <<>>
\* when it is undefined; const { path = '' } defaults it to the empty string
NotePage(list, params) ==
    LET path == IF params = <<>> THEN <<>> ELSE params[1]
        note == Find(list, path)
    IN  [kind |-> "DetailView", param |-> path, found |-> note,
         list |-> [ok |-> TRUE, sections |-> <<>>]]

\* a Detail View whose not-found branch renders no link
BackLinkOnlyWhenFound(v) == v.kind = "DetailView" /\ v.found # <<>>

\* whether the view shows the <Link to='/'>: NotePage renders it in the
\* not-found branch and in the aside of the found branch
BackLinkOffered(v) == v.kind = "DetailView"

\* the metadata the found branch displays beside the content: the category
\* in the aside; the not-found branch displays none
DetailMetadata(v) ==
    IF v.kind = "DetailView" /\ v.found # <<>>
    THEN <<[field |-> "category", value |-> v.found[1].category]>>
    ELSE <<>>

\* the markdown prop of <MarkdownViewer>, as a sequence of at most one text
MarkdownProp(v) ==
    IF v.kind = "DetailView" /\ v.found # <<>>
    THEN <<v.found[1].content>>
    ELSE <<>>

(***************************************************************************)
(* App: the three routes '/', '/note/:path*' and '*'.                      *)
(***************************************************************************)
IndexURL == Slash

\* the link of a List View item: to={`/note/${note.path}`}
NoteURL(path) == Slash \o sNote \o Slash \o path

\* '/note/:path*': the router reads a '*' that does not follow a '/' as
\* '/note/:path/*', a one-segment parameter 'path' and a splat for the rest
MatchesDetail(url) ==
    LET segs == Split(url, Slash)
    IN  /\ Len(segs) >= 3
        /\ segs[1] = <<>>
        /\ segs[2] = sNote
        /\ segs[3] # <<>>

\* useParams() for a URL the detail route matches: 'path' is always defined
UseParams(url) == <<Split(url, Slash)[3]>>

\* a fallback that redirects to the detail route without a parameter
NavigateToNote == Slash \o sNote

\* <Navigate to='/' replace />
NavigateTo == IndexURL

\* a back link that leads to the detail route
BackLinkToNote == Slash \o sNote \o Slash \o sA

\* <Link to='/'> of the Detail View, in both of its branches
BackLinkTo == IndexURL

\* what <Routes> renders for a location
Render(list, url) ==
    IF url = IndexURL
    THEN [kind |-> "ListView", param |-> <<>>, found |-> <<>>,
          list |-> NoteListPage(list)]
    ELSE IF MatchesDetail(url)
    THEN NotePage(list, UseParams(url))
    ELSE [kind |-> "Navigate", param |-> <<>>, found |-> <<>>,
          list |-> [ok |-> TRUE, sections |-> <<>>]]

(***************************************************************************)
(* The running application.                                                *)
(*   srcTree   the files present when the bundle was built                 *)
(*   notesMap  the glob's entries                                          *)
(*   noteList  the indexed records                                         *)
(*   history   the session history, the current location last              *)
(*   view      what <Routes> rendered for the current location             *)
(*   event     the navigation that led to the current location             *)
(***************************************************************************)
Event(type, to) == [type |-> type, to |-> to]

\* URLs a user may type in the address bar: the index, routes no pattern
\* matches, detail URLs of no note, and the URL of any note
TypedURLs ==
    { IndexURL,
      Slash \o sX,
      Slash \o sNote,
      NoteURL(sUpperA) }
    \cup {NoteURL(noteList[i].path) : i \in 1..Len(noteList)}

\* a first render that runs while the entries are still being loaded (a glob
\* without eager: true) and so reads no record
InitRendersEarly ==
    /\ srcTree \in SourceTrees
    /\ notesMap = Glob(srcTree)
    /\ noteList = BuildNoteList(notesMap)
    /\ history = <<IndexURL>>
    /\ view = Render(<<>>, IndexURL)
    /\ event = Event("load", <<>>)

Init ==
    /\ srcTree \in SourceTrees
    /\ notesMap = Glob(srcTree)
    /\ noteList = BuildNoteList(notesMap)
    /\ history = <<IndexURL>>
    /\ view = Render(noteList, IndexURL)
    /\ event = Event("load", <<>>)

\* the List View rendered nothing: an error in render unmounts the whole tree
Unmounted == view.kind = "ListView" /\ ~view.list.ok

Reverse(list) == [i \in 1..Len(list) |-> list[Len(list) + 1 - i]]

\* a navigation whose render reverses noteList in place (noteList.reverse())
PushAndReverse(url, ev) ==
    /\ Len(history) < MaxHist
    /\ history' = Append(history, url)
    /\ noteList' = Reverse(noteList)
    /\ view' = Render(noteList', url)
    /\ event' = ev
    /\ UNCHANGED <<srcTree, notesMap>>

\* navigate(url): a new history entry, and the routes render again
Push(url, ev) ==
    /\ Len(history) < MaxHist
    /\ history' = Append(history, url)
    /\ view' = Render(noteList, url)
    /\ event' = ev
    /\ UNCHANGED <<srcTree, notesMap, noteList>>

\* the user activates the <Link> of a note shown in the List View
ClickNoteLink ==
    /\ view.kind = "ListView"
    /\ \E s \in 1..Len(view.list.sections) :
         \E j \in 1..Len(view.list.sections[s].notes) :
            LET note == view.list.sections[s].notes[j]
            IN  Push(NoteURL(note.path), Event("link", note.path))

\* the user activates the <Link to='/'> of the Detail View
ClickBackLink ==
    /\ BackLinkOffered(view)
    /\ Push(BackLinkTo, Event("back", <<>>))

\* the user types a URL: the bundle is loaded again at that location
EnterURL ==
    /\ view.kind # "Navigate"
    /\ \E u \in TypedURLs : Push(u, Event("url", <<>>))

\* the browser's back button.  An unmounted application renders again only
\* when the entry belongs to an earlier page load: both outcomes are kept
BrowserBack ==
    /\ view.kind # "Navigate"
    /\ Len(history) > 1
    /\ history' = SubSeq(history, 1, Len(history) - 1)
    /\ \/ view' = Render(noteList, history[Len(history) - 1])
       \/ Unmounted /\ view' = view
    /\ event' = Event("pop", <<>>)
    /\ UNCHANGED <<srcTree, notesMap, noteList>>

\* the effect of <Navigate to='/' /> without replace: a new entry is pushed
NavigateEffectPush ==
    /\ view.kind = "Navigate"
    /\ history' = Append(history, NavigateTo)
    /\ view' = Render(noteList, NavigateTo)
    /\ event' = Event("redirect", <<>>)
    /\ UNCHANGED <<srcTree, notesMap, noteList>>

\* the effect of <Navigate to='/' replace />: the entry is replaced
NavigateEffect ==
    /\ view.kind = "Navigate"
    /\ history' = [history EXCEPT ![Len(history)] = NavigateTo]
    /\ view' = Render(noteList, NavigateTo)
    /\ event' = Event("redirect", <<>>)
    /\ UNCHANGED <<srcTree, notesMap, noteList>>

Next ==
    \/ ClickNoteLink
    \/ ClickBackLink
    \/ EnterURL
    \/ BrowserBack
    \/ NavigateEffect

Spec == Init /\ [][Next]_vars

\* the effect of a rendered <Navigate> always runs
FairSpec == Spec /\ WF_vars(NavigateEffect)

(***************************************************************************)
(* Properties.                                                             *)
(***************************************************************************)
Notes == 1..Len(noteList)

Top == history[Len(history)]

Found(r) == <<r>>

NotFound == <<>>

\* C1: looking up the path of any record of noteList in the Detail View
\* yields Found for exactly that record (path, name, category and content),
\* both for the lookup taken alone and for every Detail View the application
\* has rendered.
LookupCorrect ==
    /\ \A i \in Notes :
          NotePage(noteList, <<noteList[i].path>>).found = Found(noteList[i])
    /\ view.kind = "DetailView" =>
          \A i \in Notes :
             noteList[i].path = view.param => view.found = Found(noteList[i])

\* a link led to the Detail View of the second of two records
LookupCorrectWitness ==
    /\ Len(noteList) = 2
    /\ event.type = "link"
    /\ view.kind = "DetailView"
    /\ view.param = noteList[2].path
    /\ view.found = Found(noteList[2])

\* strings that are no record's path but close to one: every proper prefix,
\* the same letters in the other case, and the empty string
SwapCase(p) ==
    [i \in 1..Len(p) |-> IF p[i] = "a" THEN "A" ELSE IF p[i] = "A" THEN "a" ELSE p[i]]

NearPaths ==
    {<<>>}
    \cup UNION {{SubSeq(noteList[i].path, 1, k) : k \in 0..(Len(noteList[i].path) - 1)} : i \in Notes}
    \cup {SwapCase(noteList[i].path) : i \in Notes}
    \cup {sX, sA \o Slash \o sX}

IsPath(p) == \E i \in Notes : noteList[i].path = p

\* C2: for every string that is the path of no record (the empty string, a
\* missing parameter, a prefix of a path, a path in another letter case) the
\* Detail View resolves to NotFound and shows no record.
NotFoundTotal ==
    /\ \A p \in NearPaths :
          ~IsPath(p) =>
             /\ NotePage(noteList, <<p>>).kind = "DetailView"
             /\ NotePage(noteList, <<p>>).found = NotFound
    /\ ~IsPath(<<>>) => NotePage(noteList, <<>>).found = NotFound
    /\ (view.kind = "DetailView" /\ ~IsPath(view.param)) => view.found = NotFound

\* the Detail View was asked for 'A' while a record has the path 'a'
NotFoundTotalWitness ==
    /\ view.kind = "DetailView"
    /\ view.param = sUpperA
    /\ IsPath(sA)
    /\ ~IsPath(sUpperA)
    /\ view.found = NotFound

\* C3: activating the List View link of a record leads to the Detail View
\* whose path parameter is the whole path of that record, at any depth.
LinkCarriesWholePath ==
    event.type = "link" =>
        /\ view.kind = "DetailView"
        /\ view.param = event.to

\* C4: the path of every record is its collector key with './notes/' removed
\* once from the front and '.md' removed once from the end.
PathDerivation ==
    /\ Len(noteList) = Len(notesMap)
    /\ \A i \in 1..Len(notesMap) :
          LET key == notesMap[i].key
          IN  /\ StartsWith(key, NotesPrefix)
              /\ EndsWith(key, sExt)
              /\ noteList[i].path =
                    SubSeq(key, Len(NotesPrefix) + 1, Len(key) - Len(sExt))

\* './notes/notes/a/a.md.md' was collected and gave the path 'notes/a/a.md'
PathDerivationWitness ==
    \E i \in Notes :
        /\ notesMap[i].key =
              NotesPrefix \o sNotes \o Slash \o sA \o Slash \o sA \o sExt \o sExt
        /\ noteList[i].path = sNotes \o Slash \o sA \o Slash \o sA \o sExt

SlashesOf(p) == {k \in 1..Len(p) : p[k] = "/"}

Max(S) == CHOOSE x \in S : \A y \in S : y <= x

Min(S) == CHOOSE x \in S : \A y \in S : x <= y

AfterLastSlash(p) ==
    IF SlashesOf(p) = {} THEN p ELSE SubSeq(p, Max(SlashesOf(p)) + 1, Len(p))

BeforeFirstSlash(p) == SubSeq(p, 1, Min(SlashesOf(p)) - 1)

\* C5: the name of every record is what follows the last '/' of its path
\* (the whole path when it has none) and its category is what precedes the
\* first '/', or 'root' when the path has a single segment.
NameCategoryDerivation ==
    \A i \in Notes :
        LET r == noteList[i]
        IN  /\ r.name = AfterLastSlash(r.path)
            /\ r.category =
                  IF SlashesOf(r.path) # {} THEN BeforeFirstSlash(r.path) ELSE sRoot

\* a record of one segment beside a record of three
NameCategoryDerivationWitness ==
    /\ \E i \in Notes : SlashesOf(noteList[i].path) = {} /\ noteList[i].category = sRoot
    /\ \E i \in Notes :
          /\ Cardinality(SlashesOf(noteList[i].path)) = 2
          /\ noteList[i].category = sNotes
          /\ noteList[i].name = sA \o sExt

\* C6: two distinct collected files never give the same path.
PathUnique ==
    \A i, j \in Notes :
        i # j => (notesMap[i].key # notesMap[j].key /\ noteList[i].path # noteList[j].path)

\* two files of the same name in different directories
PathUniqueWitness ==
    \E i, j \in Notes :
        /\ i # j
        /\ noteList[i].name = noteList[j].name
        /\ noteList[i].category # noteList[j].category
        /\ noteList[i].path # noteList[j].path

RECURSIVE Flatten(_)
Flatten(sections) ==
    IF sections = <<>> THEN <<>>
    ELSE Head(sections).notes \o Flatten(Tail(sections))

CountIn(seq, r) == Cardinality({k \in 1..Len(seq) : seq[k] = r})

\* C7: the groups of the List View, flattened, hold every record of noteList
\* exactly once and nothing else.
GroupingComplete ==
    view.kind = "ListView" =>
        LET flat == Flatten(view.list.sections)
        IN  /\ Len(flat) = Len(noteList)
            /\ \A i \in Notes : CountIn(flat, noteList[i]) = 1
            /\ \A k \in 1..Len(flat) : \E i \in Notes : flat[k] = noteList[i]

\* C8: every Markdown file under src/docs/ has its entry in notesMap, its
\* record in noteList and its link in the List View.
DocsFilesCollected ==
    \A k \in 1..Len(srcTree) :
        (StartsWith(srcTree[k].file, DocsPrefix) /\ EndsWith(srcTree[k].file, sExt)) =>
            \E i \in Notes :
                /\ notesMap[i].key = srcTree[k].file
                /\ noteList[i].content = srcTree[k].text

ViewState == <<view.kind, view.param>>

\* the Detail View is resolved to one record of that path, or to no record
Resolved(v) ==
    \/ v.found = NotFound
    \/ \E i \in Notes : v.found = Found(noteList[i]) /\ noteList[i].path = v.param

\* C9 as stated: the application is always in ListView or DetailView, and
\* the view changes only from ListView to DetailView by a link and from
\* DetailView to ListView by the back link.
OnlyLinkAndBackTransitions ==
    [][/\ view'.kind \in {"ListView", "DetailView"}
       /\ ViewState' # ViewState =>
             \/ view.kind = "ListView" /\ view'.kind = "DetailView" /\ event'.type = "link"
             \/ view.kind = "DetailView" /\ view'.kind = "ListView" /\ event'.type = "back"
      ]_vars

\* C9, amended: the application starts in ListView and is always in exactly
\* one of ListView, DetailView(path), resolved to Found(record) or NotFound,
\* or the fallback redirect, which a typed URL alone enters and which leads
\* to ListView alone; a link leads from ListView to DetailView and the back
\* link from DetailView to ListView, while a typed URL and the browser's back
\* step may lead from any view to any view.
RoutingStateMachine ==
    /\ view.kind = "ListView"
    /\ [][/\ view'.kind \in {"ListView", "DetailView", "Navigate"}
          /\ view'.kind = "DetailView" => Resolved(view')
          /\ view'.kind = "Navigate" => event'.type = "url"
          /\ view.kind = "Navigate" => (view'.kind = "ListView" /\ event'.type = "redirect")
          /\ event'.type = "link" => (view.kind = "ListView" /\ view'.kind = "DetailView")
          /\ event'.type = "back" => (view.kind = "DetailView" /\ view'.kind = "ListView")
          /\ event'.type \in {"link", "back", "url", "pop", "redirect"}
         ]_vars

\* the back link was used from a Detail View that a link had opened
RoutingStateMachineWitness ==
    /\ event.type = "back"
    /\ view.kind = "ListView"
    /\ Len(history) = 3
    /\ MatchesDetail(history[2])
    /\ \E i \in Notes : history[2] = NoteURL(noteList[i].path)

Unmatched(url) == url # IndexURL /\ ~MatchesDetail(url)

\* C10: a location that matches neither '/' nor the detail route is left by
\* the redirect alone, which ends in the List View at '/', and it is always
\* left.
FallbackRedirects ==
    /\ [][/\ Unmatched(Top) => (view'.kind = "ListView" /\ Top' = IndexURL)
          /\ Unmatched(Top') => view'.kind = "Navigate"
         ]_vars
    /\ (view.kind = "Navigate" ~> view.kind = "ListView")

\* the redirect has replaced an unmatched location
FallbackRedirectsWitness ==
    /\ event.type = "redirect"
    /\ view.kind = "ListView"
    /\ Top = IndexURL
    /\ Len(history) >= 2

\* C11: from the Detail View, found or not found, the link back to the list
\* is offered (it can be activated whenever the history bound of the model
\* leaves room) and activating it leads to the List View at '/'.
BackLinkAlwaysLeadsToList ==
    /\ []((view.kind = "DetailView" /\ Len(history) < MaxHist) => ENABLED ClickBackLink)
    /\ [][ClickBackLink => (view'.kind = "ListView" /\ Top' = IndexURL)]_vars

\* the back link was used from a Detail View that had found no note
BackLinkAlwaysLeadsToListWitness ==
    /\ event.type = "back"
    /\ view.kind = "ListView"
    /\ Len(history) >= 3
    /\ MatchesDetail(history[Len(history) - 1])
    /\ Find(noteList, UseParams(history[Len(history) - 1])[1]) = NotFound
    /\ Len(noteList) > 0

\* C12: no render of the List View, no lookup of the Detail View and no
\* route transition changes noteList (its length, its order, any field of
\* any record), the collector's entries or the files they were read from.
IndexImmutable ==
    [][/\ noteList' = noteList
       /\ notesMap' = notesMap
       /\ srcTree' = srcTree
       /\ noteList' = BuildNoteList(Glob(srcTree))
      ]_vars

\* two records are indexed, and a List View render, a lookup and a second
\* List View render have taken place
IndexImmutableWitness ==
    /\ Len(noteList) = 2
    /\ noteList[1] # noteList[2]
    /\ Len(history) = 3
    /\ MatchesDetail(history[2])
    /\ view.kind = "ListView"
    /\ view.list.ok
    /\ event.type \in {"back", "url"}

HiddenFile == NotesPrefix \o sExt

\* C13: the path of every record is a non-empty string, whatever files the
\* glob met.
PathNonEmpty ==
    /\ \A i \in Notes : noteList[i].path # <<>> /\ noteList[i].name # <<>>
    /\ \A k \in 1..Len(srcTree) :
          GlobMatches(srcTree[k].file) =>
              NoteItem(srcTree[k].file, srcTree[k].text).path # <<>>

\* the tree holds './notes/.md', which would give the empty path, beside a
\* file that was collected
PathNonEmptyWitness ==
    /\ \E k \in 1..Len(srcTree) : srcTree[k].file = HiddenFile
    /\ Len(srcTree) = 2
    /\ Len(noteList) = 1

\* the text of the file at a path of the source tree, as a sequence of at
\* most one text
TextOf(file) ==
    LET hits == {k \in 1..Len(srcTree) : srcTree[k].file = file}
    IN  IF hits = {} THEN <<>> ELSE <<srcTree[CHOOSE k \in hits : TRUE].text>>

\* C14: the content of every record is the text of its source file, and a
\* Detail View that found a note hands that same text to the Markdown
\* renderer.
ContentVerbatim ==
    /\ \A i \in Notes : <<noteList[i].content>> = TextOf(notesMap[i].key)
    /\ (view.kind = "DetailView" /\ view.found # NotFound) =>
          MarkdownProp(view) = TextOf(NotesPrefix \o view.param \o sExt)

\* the Detail View shows the note whose text differs from the other note's
ContentVerbatimWitness ==
    /\ Len(noteList) = 2
    /\ noteList[1].content # noteList[2].content
    /\ view.kind = "DetailView"
    /\ view.found # NotFound
    /\ MarkdownProp(view) = <<"# a">>

Shows(v, field, value) ==
    \E k \in 1..Len(DetailMetadata(v)) :
        DetailMetadata(v)[k] = [field |-> field, value |-> value]

\* C15: a Detail View that found the record r displays r.category and
\* r.name beside the rendered content.
FoundShowsCategoryAndName ==
    (view.kind = "DetailView" /\ view.found # NotFound) =>
        /\ MarkdownProp(view) = <<view.found[1].content>>
        /\ Shows(view, "category", view.found[1].category)
        /\ Shows(view, "name", view.found[1].name)

\* the position of a record in noteList (0 when it is not one of them)
PositionOf(r) ==
    LET hits == {i \in Notes : noteList[i] = r}
    IN  IF hits = {} THEN 0 ELSE Min(hits)

\* C16: within each group of the List View the records keep the relative
\* order they have in noteList.
GroupKeepsListOrder ==
    view.kind = "ListView" =>
        \A s \in 1..Len(view.list.sections) :
            LET notes == view.list.sections[s].notes
            IN  \A p, q \in 1..Len(notes) :
                    p < q => (0 < PositionOf(notes[p]) /\ PositionOf(notes[p]) < PositionOf(notes[q]))

\* one group holds two records
GroupKeepsListOrderWitness ==
    /\ view.kind = "ListView"
    /\ Len(view.list.sections) = 1
    /\ Len(view.list.sections[1].notes) = 2
    /\ view.list.sections[1].notes = noteList

\* C17: noteList has one record per entry of notesMap, in the order of the
\* entries: the i-th record has the path and the text of the i-th entry.
IndexerKeepsEntryOrder ==
    /\ Len(noteList) = Len(notesMap)
    /\ \A i \in 1..Len(notesMap) :
          /\ NotesPrefix \o noteList[i].path \o sExt = notesMap[i].key
          /\ noteList[i].content = notesMap[i].raw
    /\ Len(notesMap) = Cardinality({k \in 1..Len(srcTree) : GlobMatches(srcTree[k].file)})

\* two entries whose records differ in path and in text
IndexerKeepsEntryOrderWitness ==
    /\ Len(notesMap) = 2
    /\ notesMap[1].raw # notesMap[2].raw
    /\ noteList[1].content = notesMap[1].raw
    /\ noteList[2].path # noteList[1].path
    /\ event.type = "load"

Collected == {k \in 1..Len(srcTree) : GlobMatches(srcTree[k].file)}

\* C18: every view, the first one included, is rendered from the finished
\* index: a List View that rendered lists as many notes as files were
\* collected, and a Detail View is NotFound only when no collected file has
\* that path.
ViewsReadFinishedIndex ==
    /\ Len(noteList) = Cardinality(Collected)
    /\ (view.kind = "ListView" /\ view.list.ok) =>
          Len(Flatten(view.list.sections)) = Cardinality(Collected)
    /\ (view.kind = "DetailView" /\ view.found = NotFound) =>
          \A k \in Collected : srcTree[k].file # NotesPrefix \o view.param \o sExt

\* the first render of the application lists the two collected notes
ViewsReadFinishedIndexWitness ==
    /\ event.type = "load"
    /\ Len(history) = 1
    /\ Cardinality(Collected) = 2
    /\ view.kind = "ListView"
    /\ Len(Flatten(view.list.sections)) = 2

\* C19: a record has the category 'root' exactly when its path has a single
\* segment, so the 'root' group of the List View holds no note of a
\* directory.
SentinelOnlyUncategorized ==
    /\ \A i \in Notes : noteList[i].category = sRoot <=> SlashesOf(noteList[i].path) = {}
    /\ view.kind = "ListView" =>
          \A s \in 1..Len(view.list.sections) :
             \A p, q \in 1..Len(view.list.sections[s].notes) :
                (SlashesOf(view.list.sections[s].notes[p].path) = {})
                   <=> (SlashesOf(view.list.sections[s].notes[q].path) = {})

InGroupOf(r, sections) ==
    \E s \in 1..Len(sections) :
        /\ sections[s].category = r.category
        /\ \E p \in 1..Len(sections[s].notes) : sections[s].notes[p] = r

\* C20: the grouping of the List View does not throw, whatever the category
\* of a record is, and places every record in the group keyed by its
\* category.
GroupingNeverThrows ==
    view.kind = "ListView" =>
        /\ view.list.ok
        /\ \A i \in Notes : InGroupOf(noteList[i], view.list.sections)

\* the sections of the List View that hold the record r
GroupsHolding(r, sections) ==
    {s \in 1..Len(sections) :
        \E p \in 1..Len(sections[s].notes) : sections[s].notes[p] = r}

\* C21: every record shown in the group with key c has the category c, and
\* every record of noteList is in exactly one group, whose key is the
\* record's category.
GroupingSound ==
    view.kind = "ListView" =>
        LET sections == view.list.sections
        IN  /\ \A s \in 1..Len(sections) :
                  \A p \in 1..Len(sections[s].notes) :
                      sections[s].notes[p].category = sections[s].category
            /\ \A i \in Notes :
                  /\ Cardinality(GroupsHolding(noteList[i], sections)) = 1
                  /\ \A s \in GroupsHolding(noteList[i], sections) :
                        sections[s].category = noteList[i].category

\* the collector key a path leads back to
KeyOf(path) == NotesPrefix \o path \o sExt

\* C22: the root prefix, the path of a record and '.md' spell the key of the
\* collector entry the record was made from, so the path of every record
\* names the file of the source tree the record holds the text of.
PathRoundTrip ==
    /\ \A j \in 1..Len(notesMap) :
          j \in Notes /\ KeyOf(noteList[j].path) = notesMap[j].key
    /\ \A i \in Notes :
          \E k \in 1..Len(srcTree) :
              /\ srcTree[k].file = KeyOf(noteList[i].path)
              /\ srcTree[k].text = noteList[i].content

\* a record whose key holds the prefix and the extension twice, beside a
\* record of another file
PathRoundTripWitness ==
    /\ Len(noteList) = 2
    /\ \E i \in Notes :
          /\ IndexOf(noteList[i].path, sNotes \o Slash) # 0
          /\ EndsWith(noteList[i].path, sExt)
          /\ KeyOf(noteList[i].path) = notesMap[i].key
    /\ view.kind = "DetailView"

\* the outcome of a visit: the record found, or NotFound
Outcome(v) == v.found

\* C23: the outcome of a Detail View is a function of its path and of
\* noteList, which no navigation changes: whatever was viewed before, the
\* view for p shows what a lookup of p in noteList yields, and two visits
\* to the same p that follow each other have the same outcome.
ResolutionDependsOnPathOnly ==
    /\ [](view.kind = "DetailView" => Outcome(view) = Find(noteList, view.param))
    /\ [][/\ noteList' = noteList
          /\ (view.kind = "DetailView" /\ view'.kind = "DetailView"
                /\ view'.param = view.param) => Outcome(view') = Outcome(view)
         ]_vars

\* a path that resolves to NotFound is visited straight after the Detail
\* View of a note that was found
ResolutionDependsOnPathOnlyWitness ==
    /\ Len(history) = 3
    /\ MatchesDetail(history[2])
    /\ Outcome(Render(noteList, history[2])) # NotFound
    /\ history[3] # history[2]
    /\ view.kind = "DetailView"
    /\ Outcome(view) = NotFound

\* the position in noteList of the first record of a category
FirstOf(c) == Min({i \in Notes : noteList[i].category = c})

Precedes(cs, ct) ==
    \/ IsIntegerKey(cs) /\ IsIntegerKey(ct) /\ KeyValue(cs) < KeyValue(ct)
    \/ IsIntegerKey(cs) /\ ~IsIntegerKey(ct)
    \/ ~IsIntegerKey(cs) /\ ~IsIntegerKey(ct) /\ FirstOf(cs) < FirstOf(ct)

\* an object whose keys were created in the order '10', 'a', '2'
TenATwo ==
    <<[category |-> <<"1", "0">>, notes |-> <<>>],
      [category |-> sA, notes |-> <<>>],
      [category |-> sTwo, notes |-> <<>>]>>

Below == SubSeq(history, 1, Len(history) - 1)

\* C25: the redirect replaces the unmatched entry: it leaves the entries
\* below untouched and adds none, so once the List View is shown no entry of
\* the history is an unmatched route, and a browser back step never arrives
\* at one and never renders the redirect again.
RedirectReplacesEntry ==
    /\ [](\A k \in 1..Len(Below) : ~Unmatched(Below[k]))
    /\ [](Unmatched(Top) <=> view.kind = "Navigate")
    /\ [][NavigateEffect =>
             /\ Unmatched(Top)
             /\ Len(history') = Len(history)
             /\ Below' = Below
             /\ \A k \in 1..Len(history') : ~Unmatched(history'[k])
         ]_vars
    /\ [][BrowserBack => (~Unmatched(Top') /\ view'.kind # "Navigate")]_vars

\* an unmatched route was entered from a Detail View and replaced: the
\* entry below the List View is the Detail View's
RedirectReplacesEntryWitness ==
    /\ event.type = "redirect"
    /\ Len(history) = 3
    /\ MatchesDetail(history[2])
    /\ Top = IndexURL
    /\ view.kind = "ListView"
    /\ ENABLED BrowserBack

====
